---- MODULE Spec2Model ----
(***************************************************************************)
(* Model of ct-lib/zcash_primitives/src/sapling.rs: the Sapling commitment *)
(* tree node (Node, merkle_hash, the lazily built EMPTY_ROOTS table) and   *)
(* the spend authorization signature (spend_sig).                          *)
(*                                                                         *)
(* Field element representations are scaled: the code's 32-byte, 256-bit   *)
(* FrRepr is ReprBytes bytes of ByteBits bits here, and Fr::NUM_BITS       *)
(* stays one less than the width of the slot.  The tree depth keeps its    *)
(* value, 32.  A call that panics is recorded as a result of kind "panic". *)
(***************************************************************************)
EXTENDS Integers, Sequences, FiniteSets, TLC

VARIABLES
    once,       \* state of the Once guarding EMPTY_ROOTS
    cell,       \* the lazy cell: <<>> (None) or <<table>> (Some(table))
    v,          \* v[t]: the Vec<Node> thread t is building in the initializer
    pc,         \* pc[t]: where thread t is inside Node::empty_root
    arg,        \* arg[t]: the depth thread t passed to Node::empty_root
    ret,        \* ret[t]: what thread t's last call of Node::empty_root gave
    stores,     \* number of times the lazy cell has been written
    hcall,      \* the last call of merkle_hash / Node::combine
    ncall,      \* the last call of Node::read / Node::write / Fr::from
    sig         \* the spend_sig call in progress

vars == <<once, cell, v, pc, arg, ret, stores, hcall, ncall, sig>>

---------------------------------------------------------------------------
(* Bounds and constants *)

ReprBytes == 2
ByteBits == 2
NumThreads == 2
SampleRadius == 4
MinOrder == 5
MaxDigest == 1

\* sapling_crypto::circuit::sapling::TREE_DEPTH
SAPLING_COMMITMENT_TREE_DEPTH == 32

RECURSIVE Pow2(_)
Pow2(n) == IF n = 0 THEN 1 ELSE 2 * Pow2(n - 1)

\* Width of an FrRepr in bits (256 in the code: the [false; 256] arrays).
ReprBits == ReprBytes * ByteBits

\* Fr::NUM_BITS (255 in the code): one less than the width of the slot.
NUM_BITS == ReprBits - 1

\* The field modulus: below 2^NUM_BITS and above 2^(NUM_BITS-1), as for Fr.
Modulus == Pow2(NUM_BITS) - 3

FrRepr == 0 .. (Pow2(ReprBits) - 1)
Byte == 0 .. (Pow2(ByteBits) - 1)

Min(a, b) == IF a < b THEN a ELSE b

\* The child representations the calls are made on: those within
\* SampleRadius of 0, of 2^NUM_BITS (the modulus lies just below it) and of
\* the top of the slot.  At 4 bits this is every representation.
Children ==
    {r \in FrRepr : \/ r <= SampleRadius
                    \/ (r >= Pow2(NUM_BITS) - SampleRadius /\ r <= Pow2(NUM_BITS) + SampleRadius)
                    \/ r >= Pow2(ReprBits) - 1 - SampleRadius}

\* Results of calls: a value, an io::Error, or a panic (abort).
Ok(x) == [kind |-> "ok", val |-> <<x>>]
Err(e) == [kind |-> "err", val |-> <<e>>]
Panic(m) == [kind |-> "panic", val |-> <<m>>]
NoCall == [fn |-> "none"]

\* Depths handed to Node::empty_root by callers.
RootArgs == {0, 1, SAPLING_COMMITMENT_TREE_DEPTH, SAPLING_COMMITMENT_TREE_DEPTH + 1}

Threads == 1 .. NumThreads

\* Depths handed to merkle_hash / Node::combine by callers.
DepthArgs == {0, 1, SAPLING_COMMITMENT_TREE_DEPTH - 1,
              SAPLING_COMMITMENT_TREE_DEPTH, SAPLING_COMMITMENT_TREE_DEPTH + 1}

---------------------------------------------------------------------------
(* Field and hash library, as consumed by sapling.rs *)

\* Bit i (0 = least significant) of a representation.
Bit(x, i) == (x \div Pow2(i)) % 2

\* ff::BitIterator::new(repr): the bits of repr, most significant first.
BitIterator(repr) == [k \in 1 .. ReprBits |-> Bit(repr, ReprBits - k) = 1]

\* Iterator::take(n)
Take(s, n) == SubSeq(s, 1, Min(n, Len(s)))

\* pedersen_hash(personalization, bits, params).into_xy().0.into_repr():
\* a deterministic function of the tag and of every bit, into the field.
RECURSIVE PedersenFold(_, _, _)
PedersenFold(acc, bits, i) ==
    IF i > Len(bits) THEN acc
    ELSE PedersenFold((3 * acc + (IF bits[i] THEN 2 ELSE 1)) % Modulus, bits, i + 1)

pedersen_hash(pers, bits) == PedersenFold((pers + 1) % Modulus, bits, 1)

\* Fr::from_repr: Err(NotInField) unless the representation is below the modulus.
from_repr(repr) == IF repr < Modulus THEN Ok(repr) ELSE Err("NotInField")

\* FrRepr::write_le: the representation as ReprBytes bytes, least significant
\* byte first.
write_le(repr) ==
    [i \in 1 .. ReprBytes |-> (repr \div Pow2(ByteBits * (i - 1))) % Pow2(ByteBits)]

\* The same bytes, most significant byte first (FrRepr::write_be).
write_be(repr) ==
    [i \in 1 .. ReprBytes |-> (repr \div Pow2(ByteBits * (ReprBytes - i))) % Pow2(ByteBits)]

\* The value of the first n bytes of a stream read as a little-endian number.
RECURSIVE LeValue(_, _)
LeValue(bytes, n) ==
    IF n = 0 THEN 0 ELSE bytes[1] + Pow2(ByteBits) * LeValue(Tail(bytes), n - 1)

\* FrRepr::read_le: reads exactly ReprBytes bytes; a shorter stream is an
\* io::Error (UnexpectedEof).
read_le(stream) ==
    IF Len(stream) < ReprBytes THEN Err("UnexpectedEof")
    ELSE Ok(LeValue(stream, ReprBytes))

---------------------------------------------------------------------------
(* RedJubjub, as consumed by spend_sig.  The prime-order subgroup of Jubjub *)
(* is the additive group of integers modulo FsOrder, a point being its     *)
(* multiple of a fixed base point; Fs is the scalar field.                 *)

IsPrime(n) == n > 1 /\ \A k \in 2 .. (n - 1) : n % k # 0

\* The order of the group: the least prime that is at least MinOrder.
FsOrder ==
    CHOOSE p \in MinOrder .. (2 * MinOrder) :
        IsPrime(p) /\ \A q \in MinOrder .. (p - 1) : ~IsPrime(q)

Fs == 0 .. (FsOrder - 1)

\* Transaction digests (sighash).
Digests == 0 .. MaxDigest

\* FixedGenerators: distinct non-identity points.
Generator(g) ==
    CASE g = "SpendingKeyGenerator" -> 1
      [] g = "ProofGenerationKey" -> 2

PointAdd(p, q) == (p + q) % FsOrder
PointMul(p, s) == (p * s) % FsOrder

\* Point::write: the canonical encoding of a point, an injection.
PointWrite(p) == (2 * p + 1) % FsOrder

\* Point::read: the point with that encoding.
PointRead(bytes) == CHOOSE p \in Fs : PointWrite(p) = bytes

\* h_star(a, b): hash of a || b to a scalar; the message is two halves.
h_star(a, msg) == (a + 2 * msg[1] + 3 * msg[2] + 1) % FsOrder

\* PrivateKey::randomize(alpha)
randomize(sk, alpha) == (sk + alpha) % FsOrder

\* PublicKey::from_private(privkey, p_g, params)
from_private(sk, p_g) == PointMul(Generator(p_g), sk)

\* PrivateKey::sign(msg, rng, p_g, params), t being the bytes drawn from rng:
\* r = h_star(T, msg); R = r.P_G; S = r + h_star(Rbar, msg).sk
sign(sk, msg, t, p_g) ==
    LET r == h_star(t, msg)
        rbar == PointWrite(PointMul(Generator(p_g), r))
    IN  [rbar |-> rbar, sbar |-> (r + h_star(rbar, msg) * sk) % FsOrder]

\* PublicKey::verify(msg, sig, p_g, params): S.P_G = R + h_star(Rbar, msg).vk
verify(vk, msg, sg, p_g) ==
    LET c == h_star(sg.rbar, msg)
    IN  PointMul(Generator(p_g), sg.sbar) = PointAdd(PointRead(sg.rbar), PointMul(vk, c))

\* OsRng::new(): the operating system's generator, or an io::Error.
OsRng_new(available) == IF available THEN Ok("OsRng") ELSE Err("io::Error")

---------------------------------------------------------------------------
(* merkle_hash *)

\* The array as filled without .rev(): slot k holds the k-th bit yielded.
ExpandBits_NoRev(repr) == BitIterator(repr)

\* The [bool; 256] array the code fills: tmp.iter_mut().rev() walks the array
\* from its last slot to its first while BitIterator yields the most
\* significant bit first, so the k-th bit yielded lands in slot ReprBits+1-k.
ExpandBits(repr) ==
    LET it == BitIterator(repr)
    IN  [j \in 1 .. ReprBits |-> it[ReprBits + 1 - j]]

\* The arguments without .take(Fr::NUM_BITS): every slot of both arrays.
HashInput_NoTake(depth, lhs, rhs) ==
    [pers |-> depth, bits |-> ExpandBits(lhs) \o ExpandBits(rhs)]

\* The arguments merkle_hash hands to pedersen_hash.
HashInput(depth, lhs, rhs) ==
    [pers |-> depth,
     bits |-> Take(ExpandBits(lhs), NUM_BITS) \o Take(ExpandBits(rhs), NUM_BITS)]

merkle_hash(depth, lhs, rhs) ==
    LET inp == HashInput(depth, lhs, rhs)
    IN  pedersen_hash(inp.pers, inp.bits)

---------------------------------------------------------------------------
(* Node *)

Node_new(repr) == [repr |-> repr]

combine(depth, lhs, rhs) == [repr |-> merkle_hash(depth, lhs.repr, rhs.repr)]

\* Note::<Bls12>::uncommitted().into_repr(): the representation of Fr::one().
UncommittedRepr == 1

blank == [repr |-> UncommittedRepr]

\* The loop body with the personalization of the level above.
NextRoot_WrongDepth(vec, d) == combine(d + 1, vec[d + 1], vec[d + 1])

\* The body of the loop that fills EMPTY_ROOTS: Node::combine(d, &v[d], &v[d])
\* (v[d] of the code is vec[d + 1] here: sequences start at 1).
NextRoot(vec, d) == combine(d, vec[d + 1], vec[d + 1])

\* Indexing that falls back to a default Node instead of aborting.
empty_root_Defaulting(table, depth) ==
    IF depth < Len(table) THEN Ok(table[depth + 1]) ELSE Ok(blank)

\* Node::empty_root: EMPTY_ROOTS[depth], Vec indexing, which panics when
\* depth is not below the length of the table.
empty_root(table, depth) ==
    IF depth < Len(table) THEN Ok(table[depth + 1])
    ELSE Panic("index out of bounds")

\* A Once that lets a caller run the initializer while another is running it.
OnceAcquire_Racy(state) == state # "COMPLETE"

\* Once::call_once: the caller that finds the Once INCOMPLETE runs the
\* initializer; callers that find it RUNNING wait for it to complete.
OnceAcquire(state) == state = "INCOMPLETE"

\* Node::read
Node_read(reader) ==
    LET repr == read_le(reader)
    IN  IF repr.kind = "ok" THEN Ok(Node_new(repr.val[1])) ELSE repr

\* Node::write with the bytes in the wrong order.
Node_write_BigEndian(node, writer) == writer \o write_be(node.repr)

\* Node::write: the writer's contents after the call.
Node_write(node, writer) == writer \o write_le(node.repr)

\* From<Node> for Fr that reduces an out-of-range representation.
Fr_from_Reducing(node) == Ok(node.repr % Modulus)

\* impl From<Node> for Fr: from_repr(..).expect(..)
Fr_from(node) ==
    LET r == from_repr(node.repr)
    IN  IF r.kind = "ok" THEN Ok(r.val[1])
        ELSE Panic("Tree nodes should be in the prime field")

---------------------------------------------------------------------------
(* Calls of merkle_hash and Node::combine on arbitrary children *)

InitIdle ==
    /\ once = "INCOMPLETE"
    /\ cell = <<>>
    /\ v = [t \in 1 .. NumThreads |-> <<>>]
    /\ pc = [t \in 1 .. NumThreads |-> "idle"]
    /\ arg = [t \in 1 .. NumThreads |-> 0]
    /\ ret = [t \in 1 .. NumThreads |-> NoCall]
    /\ stores = 0
    /\ hcall = NoCall
    /\ ncall = NoCall
    /\ sig = NoCall

CallMerkleHash ==
    /\ hcall = NoCall
    /\ \E depth \in DepthArgs, lhs \in Children, rhs \in Children :
          hcall' = [fn |-> "merkle_hash", depth |-> depth, lhs |-> lhs, rhs |-> rhs,
                    input |-> HashInput(depth, lhs, rhs),
                    res |-> Ok(merkle_hash(depth, lhs, rhs))]
    /\ UNCHANGED <<once, cell, v, pc, arg, ret, stores, ncall, sig>>

CallCombine ==
    /\ hcall = NoCall
    /\ \E depth \in DepthArgs, lhs \in Children, rhs \in Children :
          hcall' = [fn |-> "combine", depth |-> depth, lhs |-> lhs, rhs |-> rhs,
                    input |-> HashInput(depth, lhs, rhs),
                    res |-> Ok(combine(depth, Node_new(lhs), Node_new(rhs)).repr)]
    /\ UNCHANGED <<once, cell, v, pc, arg, ret, stores, ncall, sig>>

NextHash == CallMerkleHash \/ CallCombine

SpecHash == InitIdle /\ [][NextHash]_vars

---------------------------------------------------------------------------
(* Threads calling Node::empty_root, and the lazy construction of EMPTY_ROOTS *)

TableVarsUnchanged == UNCHANGED <<hcall, ncall, sig>>

\* Thread t calls Node::empty_root(depth).
EmptyRootCall(t) ==
    /\ pc[t] = "idle"
    /\ \E depth \in RootArgs : arg' = [arg EXCEPT ![t] = depth]
    /\ ret' = [ret EXCEPT ![t] = NoCall]
    /\ pc' = [pc EXCEPT ![t] = "deref"]
    /\ UNCHANGED <<once, cell, v, stores>>
    /\ TableVarsUnchanged

\* Dereferencing EMPTY_ROOTS finds the Once complete: go on to index.
DerefComplete(t) ==
    /\ pc[t] = "deref"
    /\ once = "COMPLETE"
    /\ pc' = [pc EXCEPT ![t] = "index"]
    /\ UNCHANGED <<once, cell, v, arg, ret, stores>>
    /\ TableVarsUnchanged

\* Dereferencing EMPTY_ROOTS finds the Once not yet run: this thread runs
\* the initializer, starting with vec![Node::blank()].
OnceBegin(t) ==
    /\ pc[t] = "deref"
    /\ once # "COMPLETE"
    /\ OnceAcquire(once)
    /\ once' = "RUNNING"
    /\ v' = [v EXCEPT ![t] = <<blank>>]
    /\ pc' = [pc EXCEPT ![t] = "init"]
    /\ UNCHANGED <<cell, arg, ret, stores>>
    /\ TableVarsUnchanged

\* One iteration of for d in 0..SAPLING_COMMITMENT_TREE_DEPTH.
InitLoop(t) ==
    /\ pc[t] = "init"
    /\ Len(v[t]) - 1 < SAPLING_COMMITMENT_TREE_DEPTH
    /\ v' = [v EXCEPT ![t] = Append(v[t], NextRoot(v[t], Len(v[t]) - 1))]
    /\ UNCHANGED <<once, cell, pc, arg, ret, stores>>
    /\ TableVarsUnchanged

\* The loop is over: the initializer's value is moved into the lazy cell.
InitStore(t) ==
    /\ pc[t] = "init"
    /\ Len(v[t]) - 1 >= SAPLING_COMMITMENT_TREE_DEPTH
    /\ cell' = <<v[t]>>
    /\ stores' = stores + 1
    /\ v' = [v EXCEPT ![t] = <<>>]
    /\ pc' = [pc EXCEPT ![t] = "complete"]
    /\ UNCHANGED <<once, arg, ret>>
    /\ TableVarsUnchanged

\* call_once returns in the initializing thread: the Once is COMPLETE and
\* the waiting callers are released.
OnceComplete(t) ==
    /\ pc[t] = "complete"
    /\ once' = "COMPLETE"
    /\ pc' = [pc EXCEPT ![t] = "index"]
    /\ UNCHANGED <<cell, v, arg, ret, stores>>
    /\ TableVarsUnchanged

\* EMPTY_ROOTS[depth]: the thread reads the cell; a panic ends the thread.
Index(t) ==
    /\ pc[t] = "index"
    /\ LET r == IF cell = <<>> THEN [kind |-> "uninit", val |-> <<>>]
                 ELSE empty_root(cell[1], arg[t])
       IN  /\ ret' = [ret EXCEPT ![t] = r]
           /\ pc' = [pc EXCEPT ![t] = IF r.kind = "ok" THEN "returned" ELSE "panicked"]
    /\ UNCHANGED <<once, cell, v, arg, stores>>
    /\ TableVarsUnchanged

\* The caller has its Node and may call again.
Return(t) ==
    /\ pc[t] = "returned"
    /\ pc' = [pc EXCEPT ![t] = "idle"]
    /\ UNCHANGED <<once, cell, v, arg, ret, stores>>
    /\ TableVarsUnchanged

NextTable ==
    \E t \in Threads :
        \/ EmptyRootCall(t)
        \/ DerefComplete(t)
        \/ OnceBegin(t)
        \/ InitLoop(t)
        \/ InitStore(t)
        \/ OnceComplete(t)
        \/ Index(t)
        \/ Return(t)

SpecTable == InitIdle /\ [][NextTable]_vars

---------------------------------------------------------------------------
(* Properties of EMPTY_ROOTS and Node::empty_root *)

\* Some caller can read the table: the Once is complete or a thread is at
\* the indexing step.
Readable == once = "COMPLETE" \/ \E t \in Threads : pc[t] = "index"

\* C1: once EMPTY_ROOTS is built, entry 0 is Node::blank() and entry d+1 is
\* Node::combine(d, entry d, entry d) for every d below the tree depth, in
\* every state in which a caller can read the table.
C1_DefaultRootRecurrence ==
    (Readable \/ cell # <<>>) =>
        /\ cell # <<>>
        /\ cell[1][1] = blank
        /\ \A d \in 0 .. (SAPLING_COMMITMENT_TREE_DEPTH - 1) :
              cell[1][d + 2] = combine(d, cell[1][d + 1], cell[1][d + 1])

\* The table is built and a caller has read its last entry.
C1_Witness ==
    /\ cell # <<>>
    /\ \E t \in Threads :
          /\ ret[t] # NoCall
          /\ ret[t].kind = "ok"
          /\ arg[t] = SAPLING_COMMITMENT_TREE_DEPTH
          /\ ret[t].val[1] = combine(SAPLING_COMMITMENT_TREE_DEPTH - 1,
                                      cell[1][SAPLING_COMMITMENT_TREE_DEPTH],
                                      cell[1][SAPLING_COMMITMENT_TREE_DEPTH])

\* C2: the table has exactly TREE_DEPTH+1 entries; Node::empty_root(d)
\* returns entry d for every d <= TREE_DEPTH, and aborts, returning no Node,
\* for every d > TREE_DEPTH.
C2_EmptyRootBounds ==
    /\ cell # <<>> => Len(cell[1]) = SAPLING_COMMITMENT_TREE_DEPTH + 1
    /\ \A t \in Threads :
          ret[t] # NoCall =>
              /\ arg[t] <= SAPLING_COMMITMENT_TREE_DEPTH =>
                    (ret[t].kind = "ok" /\ ret[t].val[1] = cell[1][arg[t] + 1])
              /\ arg[t] > SAPLING_COMMITMENT_TREE_DEPTH => ret[t].kind = "panic"

\* One caller got the root at TREE_DEPTH and another aborted at TREE_DEPTH+1.
C2_Witness ==
    \E t1 \in Threads, t2 \in Threads :
        /\ ret[t1] # NoCall /\ ret[t2] # NoCall
        /\ arg[t1] = SAPLING_COMMITMENT_TREE_DEPTH /\ ret[t1].kind = "ok"
        /\ arg[t2] = SAPLING_COMMITMENT_TREE_DEPTH + 1 /\ ret[t2].kind = "panic"

\* The state part of C4.
C4_State ==
    \* constructed and published at most once, and exactly once when readable
    /\ Cardinality({t \in Threads : pc[t] = "init"}) + stores <= 1
    /\ Cardinality({t \in Threads : pc[t] \in {"init", "complete"}}) <= 1
    /\ Readable => stores = 1
    \* no caller reads from an absent or partially built table
    /\ \A t \in Threads :
          pc[t] = "index" =>
              (cell # <<>> /\ Len(cell[1]) = SAPLING_COMMITMENT_TREE_DEPTH + 1)
    /\ \A t \in Threads : ret[t] # NoCall => ret[t].kind # "uninit"
    \* all callers observe the same contents
    /\ \A t1 \in Threads, t2 \in Threads :
          (ret[t1] # NoCall /\ ret[t2] # NoCall /\ arg[t1] = arg[t2]) => ret[t1] = ret[t2]

\* C4: when several threads call Node::empty_root concurrently before the
\* table exists, in every interleaving the table is constructed and
\* published exactly once, no caller reads from a partially built table,
\* all callers observe the same contents, and after publication the table
\* is never modified.
C4_SingleInitialization ==
    /\ []C4_State
    /\ [][cell # <<>> => cell' = cell]_vars

\* Two threads called empty_root before the table existed: one has built and
\* stored it and is about to complete the Once, the other is still waiting.
C4_Witness ==
    /\ stores = 1
    /\ once = "RUNNING"
    /\ cell # <<>>
    /\ \E t1 \in Threads, t2 \in Threads :
          /\ t1 # t2
          /\ pc[t1] = "complete"
          /\ pc[t2] = "deref"

---------------------------------------------------------------------------
(* Calls of Node::write, Node::read and Fr::from *)

\* Byte streams of up to n bytes.
RECURSIVE StreamsUpTo(_)
StreamsUpTo(n) ==
    IF n = 0 THEN {<<>>}
    ELSE LET shorter == StreamsUpTo(n - 1)
         IN  shorter \cup {<<b>> \o s : b \in Byte, s \in {x \in shorter : Len(x) = n - 1}}

Streams == StreamsUpTo(ReprBytes + 1)

\* A caller writes a Node (of any representation, built by Node::new) to an
\* empty Vec<u8>.
CallWrite ==
    /\ ncall = NoCall
    /\ \E repr \in FrRepr :
          ncall' = [fn |-> "write", node |-> Node_new(repr),
                    out |-> Node_write(Node_new(repr), <<>>)]
    /\ UNCHANGED <<once, cell, v, pc, arg, ret, stores, hcall, sig>>

\* The caller reads a Node back from the bytes just written.
CallReadBack ==
    /\ ncall.fn = "write"
    /\ ncall' = [fn |-> "read_back", node |-> ncall.node, stream |-> ncall.out,
                  res |-> Node_read(ncall.out)]
    /\ UNCHANGED <<once, cell, v, pc, arg, ret, stores, hcall, sig>>

\* A caller reads a Node from an arbitrary stream.
CallRead ==
    /\ ncall = NoCall
    /\ \E stream \in Streams :
          ncall' = [fn |-> "read", stream |-> stream, res |-> Node_read(stream)]
    /\ UNCHANGED <<once, cell, v, pc, arg, ret, stores, hcall, sig>>

\* A caller converts a Node built by Node::new from raw limbs.
CallFromNew ==
    /\ ncall = NoCall
    /\ \E repr \in FrRepr :
          ncall' = [fn |-> "from", src |-> "new", node |-> Node_new(repr),
                    res |-> Fr_from(Node_new(repr))]
    /\ UNCHANGED <<once, cell, v, pc, arg, ret, stores, hcall, sig>>

\* A caller converts the Node that Node::read returned.
CallFromRead ==
    /\ ncall.fn = "read"
    /\ ncall.res.kind = "ok"
    /\ ncall' = [fn |-> "from", src |-> "read", node |-> ncall.res.val[1],
                  res |-> Fr_from(ncall.res.val[1])]
    /\ UNCHANGED <<once, cell, v, pc, arg, ret, stores, hcall, sig>>

NextNode == CallWrite \/ CallReadBack \/ CallRead \/ CallFromNew \/ CallFromRead

SpecNode == InitIdle /\ [][NextNode]_vars

---------------------------------------------------------------------------
(* Properties of Node::read, Node::write and Fr::from *)

\* C6: Fr::from(node) aborts whenever the stored representation is at or
\* above the field modulus (Nodes from Node::new and Node::read can hold
\* one) and never yields a reduced value; below the modulus it yields the
\* element with exactly that value.
C6_FromFailsOutsideField ==
    ncall.fn = "from" =>
        /\ ncall.node.repr >= Modulus => ncall.res.kind = "panic"
        /\ ncall.node.repr < Modulus => ncall.res = Ok(ncall.node.repr)

\* A Node read from raw bytes held a representation at or above the modulus
\* and its conversion aborted.
C6_Witness ==
    /\ ncall.fn = "from"
    /\ ncall.src = "read"
    /\ ncall.node.repr >= Modulus
    /\ ncall.res.kind = "panic"

\* sum of bytes[i] * 2^(ByteBits*(i-1)) over i in 1..n
RECURSIVE WeightedSum(_, _)
WeightedSum(bytes, n) ==
    IF n = 0 THEN 0
    ELSE bytes[n] * Pow2(ByteBits * (n - 1)) + WeightedSum(bytes, n - 1)

\* C7: Node::write emits exactly ReprBytes bytes (32 in the code), the
\* little-endian encoding of the representation; Node::read over those
\* bytes succeeds and returns an equal Node; Node::read over a shorter
\* stream returns an error and no Node.
C7_WriteReadRoundTrip ==
    /\ ncall.fn = "write" =>
          /\ Len(ncall.out) = ReprBytes
          /\ \A i \in 1 .. ReprBytes : ncall.out[i] \in Byte
          /\ WeightedSum(ncall.out, ReprBytes) = ncall.node.repr
    /\ ncall.fn = "read_back" => ncall.res = Ok(ncall.node)
    /\ (ncall.fn = "read" /\ Len(ncall.stream) < ReprBytes) => ncall.res.kind = "err"
    /\ (ncall.fn = "read" /\ Len(ncall.stream) >= ReprBytes) => ncall.res.kind = "ok"

\* A Node whose bytes are not a palindrome was written and read back.
C7_Witness ==
    /\ ncall.fn = "read_back"
    /\ ncall.node.repr = 1
    /\ ncall.stream # write_be(1)
    /\ ncall.res.kind = "ok"

---------------------------------------------------------------------------
(* spend_sig, statement by statement *)

\* OsRng::new() with a fallback to a weaker generator.
spend_sig_rng_Fallback(r) == IF r.kind = "ok" THEN r ELSE Ok("WeakRng")

\* OsRng::new().expect("should be able to construct RNG")
spend_sig_rng(r) ==
    IF r.kind = "ok" THEN r ELSE Panic("should be able to construct RNG")

\* Signing with the key as given.
spend_sig_rsk_Unrandomized(ask, ar) == ask

\* let rsk = ask.randomize(ar);
spend_sig_rsk(ask, ar) == randomize(ask, ar)

\* let rk = PublicKey::from_private(&rsk, SpendingKeyGenerator, params);
spend_sig_rk(rsk) == from_private(rsk, "SpendingKeyGenerator")

\* data_to_be_signed: rk's encoding in [0..32], sighash in [32..64].
spend_sig_data(rk, sighash) == <<PointWrite(rk), sighash>>

\* rsk.sign(&data_to_be_signed, &mut rng, SpendingKeyGenerator, params)
spend_sig_sign(rsk, data, t) == sign(rsk, data, t, "SpendingKeyGenerator")

SigVarsUnchanged == UNCHANGED <<once, cell, v, pc, arg, ret, stores, hcall, ncall>>

SpendSigCall ==
    /\ sig = NoCall
    /\ \E ask \in Fs, ar \in Fs, sighash \in Digests :
          sig' = [fn |-> "spend_sig", pc |-> "rng", ask |-> ask, ar |-> ar,
                  sighash |-> sighash, osrng |-> "unasked", rng |-> <<>>,
                  rsk |-> <<>>, rk |-> <<>>, data |-> <<>>, out |-> <<>>]
    /\ SigVarsUnchanged

\* The first statement: the RNG is obtained, or the call aborts.
SpendSigRng ==
    /\ sig.fn = "spend_sig" /\ sig.pc = "rng"
    /\ \E available \in BOOLEAN :
          LET r == spend_sig_rng(OsRng_new(available))
          IN  sig' = [sig EXCEPT
                        !.osrng = IF available THEN "available" ELSE "unavailable",
                        !.rng = IF r.kind = "ok" THEN r.val ELSE <<>>,
                        !.out = IF r.kind = "ok" THEN <<>> ELSE <<r>>,
                        !.pc = IF r.kind = "ok" THEN "randomize" ELSE "panicked"]
    /\ SigVarsUnchanged

SpendSigRandomize ==
    /\ sig.fn = "spend_sig" /\ sig.pc = "randomize"
    /\ sig' = [sig EXCEPT !.rsk = <<spend_sig_rsk(sig.ask, sig.ar)>>, !.pc = "derive"]
    /\ SigVarsUnchanged

SpendSigDerive ==
    /\ sig.fn = "spend_sig" /\ sig.pc = "derive"
    /\ sig' = [sig EXCEPT !.rk = <<spend_sig_rk(sig.rsk[1])>>, !.pc = "message"]
    /\ SigVarsUnchanged

SpendSigMessage ==
    /\ sig.fn = "spend_sig" /\ sig.pc = "message"
    /\ sig' = [sig EXCEPT !.data = spend_sig_data(sig.rk[1], sig.sighash), !.pc = "sign"]
    /\ SigVarsUnchanged

\* The signature is made with bytes t drawn from the RNG, and returned.
SpendSigSign ==
    /\ sig.fn = "spend_sig" /\ sig.pc = "sign"
    /\ \E t \in Fs :
          sig' = [sig EXCEPT !.out = <<Ok(spend_sig_sign(sig.rsk[1], sig.data, t))>>,
                             !.pc = "done"]
    /\ SigVarsUnchanged

NextSig ==
    \/ SpendSigCall
    \/ SpendSigRng
    \/ SpendSigRandomize
    \/ SpendSigDerive
    \/ SpendSigMessage
    \/ SpendSigSign

SpecSig == InitIdle /\ [][NextSig]_vars

---------------------------------------------------------------------------
(* Properties of spend_sig *)

SigDone == sig.fn = "spend_sig" /\ sig.pc = "done"

\* What C8 says of the returned signature apart from the un-randomized key:
\* it is made under rsk = ask + ar over (encoding of rk) || digest, rk being
\* rsk's public key under the SpendingKeyGenerator, and verifies against rk.
C8_SignedUnderRsk ==
    LET rsk == (sig.ask + sig.ar) % FsOrder
        rk == PointMul(Generator("SpendingKeyGenerator"), rsk)
        msg == <<PointWrite(rk), sig.sighash>>
        sg == sig.out[1].val[1]
    IN  /\ sig.out[1].kind = "ok"
        /\ sig.rk = <<rk>>
        /\ sig.data = msg
        /\ \E t \in Fs : sg = sign(rsk, msg, t, "SpendingKeyGenerator")
        /\ verify(rk, msg, sg, "SpendingKeyGenerator")

\* The returned signature verifies against the public key of ask itself.
VerifiesUnderAsk ==
    verify(from_private(sig.ask, "SpendingKeyGenerator"), sig.data,
           sig.out[1].val[1], "SpendingKeyGenerator")

\* C8 (as amended): the signature spend_sig returns is made under
\* rsk = ask.randomize(ar) over (encoding of rk) || digest and verifies
\* against rk; it does not verify against the public key of the
\* un-randomized ask provided ar is not zero and the signature's challenge
\* h_star(Rbar, message) is not zero (when either is zero, it does verify).
C8_SignatureUnderRandomizedKey ==
    SigDone =>
        /\ C8_SignedUnderRsk
        /\ VerifiesUnderAsk <=>
              (sig.ar = 0 \/ h_star(sig.out[1].val[1].rbar, sig.data) = 0)

\* C8 as stated: for every ask and ar the signature verifies against rk and
\* does not verify against the public key of the un-randomized ask.
C8_NeverVerifiesUnderAsk ==
    SigDone => (C8_SignedUnderRsk /\ ~VerifiesUnderAsk)

\* spend_sig returned a signature made with a non-zero randomizer, which
\* verifies against rk and not against the public key of ask.
C8_Witness ==
    /\ SigDone
    /\ sig.ar # 0
    /\ sig.ask # 0
    /\ verify(sig.rk[1], sig.data, sig.out[1].val[1], "SpendingKeyGenerator")
    /\ ~VerifiesUnderAsk

\* C9: if the secure randomness source cannot be obtained, spend_sig aborts:
\* no signature is returned, no other randomness source is substituted, and
\* no key derivation or signing step has been performed.
C9_NoRngAborts ==
    (sig.fn = "spend_sig" /\ sig.osrng = "unavailable") =>
        /\ sig.pc = "panicked"
        /\ sig.out # <<>> /\ sig.out[1].kind = "panic"
        /\ sig.rng = <<>>
        /\ sig.rsk = <<>> /\ sig.rk = <<>> /\ sig.data = <<>>

\* OsRng::new() failed and the call has aborted.
C9_Witness ==
    /\ sig.fn = "spend_sig"
    /\ sig.osrng = "unavailable"
    /\ sig.pc = "panicked"

---------------------------------------------------------------------------
(* Properties of merkle_hash and Node::combine *)

IsHashCall == hcall.fn \in {"merkle_hash", "combine"}

\* C3: Node::combine and merkle_hash called with a depth at or beyond the
\* tree height (depth >= SAPLING_COMMITMENT_TREE_DEPTH) abort and return no
\* value.
C3_DepthBeyondHeightAborts ==
    (IsHashCall /\ hcall.depth >= SAPLING_COMMITMENT_TREE_DEPTH)
        => hcall.res.kind = "panic"

\* Bits 0 .. NUM_BITS-1 of x, least significant first.
LsbFirstTruncated(x) == [i \in 1 .. NUM_BITS |-> Bit(x, i - 1) = 1]

\* Bits ReprBits-1 .. 1 of x, most significant first.
MsbFirstTruncated(x) == [i \in 1 .. NUM_BITS |-> Bit(x, ReprBits - i) = 1]

\* C5 (as amended): the bit sequence merkle_hash passes to the Pedersen hash
\* is the lhs child's bits in least-significant-bit-first order truncated to
\* its first NUM_BITS bits (the top bit is dropped), followed by the rhs
\* child's bits likewise, 2*NUM_BITS bits in all, personalized with the
\* MerkleTree tag for that depth.
C5_HashInputLsbFirst ==
    IsHashCall =>
        /\ hcall.input.pers = hcall.depth
        /\ Len(hcall.input.bits) = 2 * NUM_BITS
        /\ hcall.input.bits = LsbFirstTruncated(hcall.lhs) \o LsbFirstTruncated(hcall.rhs)

\* C5 as stated: the bits are in most-significant-bit-first order, truncated
\* to the first NUM_BITS bits.
C5_HashInputMsbFirst ==
    IsHashCall =>
        /\ hcall.input.pers = hcall.depth
        /\ Len(hcall.input.bits) = 2 * NUM_BITS
        /\ hcall.input.bits = MsbFirstTruncated(hcall.lhs) \o MsbFirstTruncated(hcall.rhs)

\* merkle_hash was called on children whose two bit orders differ.
C5_Witness ==
    /\ hcall.fn = "merkle_hash"
    /\ hcall.lhs = 1
    /\ hcall.rhs = Pow2(NUM_BITS)
    /\ hcall.depth = 1
    /\ hcall.res.kind = "ok"

\* x with bit ReprBits-1 (bit 255 of the code's slot) flipped.
FlipTop(x) == IF x >= Pow2(NUM_BITS) THEN x - Pow2(NUM_BITS) ELSE x + Pow2(NUM_BITS)

\* C10: merkle_hash and Node::combine never read the top bit of either
\* child: flipping the top bit of lhs, or of rhs, gives the same parent; and
\* they return a parent also for children at or above the field modulus.
C10_TopBitNeverRead ==
    IsHashCall =>
        /\ hcall.res.kind = "ok"
        /\ hcall.res.val[1] = merkle_hash(hcall.depth, FlipTop(hcall.lhs), hcall.rhs)
        /\ hcall.res.val[1] = merkle_hash(hcall.depth, hcall.lhs, FlipTop(hcall.rhs))
        /\ hcall.res.val[1] =
              combine(hcall.depth, Node_new(FlipTop(hcall.lhs)), Node_new(hcall.rhs)).repr
        /\ hcall.res.val[1] =
              combine(hcall.depth, Node_new(hcall.lhs), Node_new(FlipTop(hcall.rhs))).repr

\* Node::combine returned a parent for an lhs at or above the modulus with
\* its top bit set, the same parent the distinct Node without that bit gives.
C10_Witness ==
    /\ hcall.fn = "combine"
    /\ hcall.lhs >= Pow2(NUM_BITS)
    /\ hcall.lhs >= Modulus
    /\ hcall.res.kind = "ok"
    /\ Node_new(FlipTop(hcall.lhs)) # Node_new(hcall.lhs)
    /\ combine(hcall.depth, Node_new(FlipTop(hcall.lhs)), Node_new(hcall.rhs)).repr
          = hcall.res.val[1]

====
